---- MODULE Spec2Model ----
(***************************************************************************)
(* Model of the viot backend slice:                                        *)
(*   - app/module/device_data/dto/device_data_dto.py                       *)
(*       keys_comma_separated_values, TimeseriesAggregationQueryDto        *)
(*   - app/database/migrations/versions/..._add_role_permission_data.py    *)
(*       upgrade(), downgrade()                                            *)
(*                                                                         *)
(* Strings are sequences of one-character strings.  Python's None is the   *)
(* string "None" in enum-valued fields.  A call result is a record         *)
(* [raised |-> exception message or "", value |-> returned value].         *)
(***************************************************************************)
EXTENDS Integers, Sequences, FiniteSets, TLC

VARIABLES
    request,          \* raw query parameters handed to the DTO constructor
    dto,              \* field values of the TimeseriesAggregationQueryDto instance
    outcome,          \* "idle" | "constructed" | "rejected" | "unvalidated" | "raw"
    errors,           \* messages of the ValidationError raised by construction
    accessed,         \* result of the last function call / property access
    value,            \* argument of keys_comma_separated_values
    alembic_version,  \* revision the database is stamped with
    role,             \* committed rows of table role
    permission,       \* committed rows of table permission
    role_permission,  \* committed rows of table role_permission
    permission_seq,   \* autoincrement sequence of permission.id
    session,          \* the migration's Session: its uncommitted view and locals
    pc,               \* position inside upgrade() / downgrade()
    last,             \* how the last migration run ended
    failed_at,        \* position at which the last failed run raised
    before,           \* committed tables when the running/last migration began
    pre_seed          \* committed tables when the last upgrade() began

dtoVars  == <<request, dto, outcome, errors, accessed, value>>
seedVars == <<alembic_version, role, permission, role_permission, permission_seq,
              session, pc, last, failed_at, before, pre_seed>>
vars     == <<request, dto, outcome, errors, accessed, value,
              alembic_version, role, permission, role_permission, permission_seq,
              session, pc, last, failed_at, before, pre_seed>>

----------------------------------------------------------------------------
(* Bounds of the model *)

MaxRawLen == 7
MaxWall == 2
MaxInterval == 2
MaxRoles == 2
MaxOtherPermissions == 1
MaxRuns == 2

----------------------------------------------------------------------------
(* Call results *)

Return(v) == [raised |-> "", value |-> v]
Raise(msg) == [raised |-> msg, value |-> 0]
NotCalled == [prop |-> "none", raised |-> "", value |-> 0]
Called(prop, res) == [prop |-> prop, raised |-> res.raised, value |-> res.value]

----------------------------------------------------------------------------
(* keys_comma_separated_values                                              *)

Whitespace == {" "}
KeyChars == {"t", "h", ",", " "}
RawStrings == UNION {[1..n -> KeyChars] : n \in 0..MaxRawLen}

RECURSIVE SkipWs(_, _)
\* index of the first character at or after i that is not matched by \s*
SkipWs(s, i) ==
    IF i <= Len(s) /\ s[i] \in Whitespace THEN SkipWs(s, i + 1) ELSE i

\* variant: the pattern is a bare comma
MatchAt_NoWhitespace(s, i) ==
    IF i <= Len(s) /\ s[i] = "," THEN i + 1 ELSE 0

\* End (exclusive) of the match of \s*,\s* that starts at i; 0 when there is none.
MatchAt(s, i) ==
    LET j == SkipWs(s, i)
    IN  IF j <= Len(s) /\ s[j] = "," THEN SkipWs(s, j + 1) ELSE 0

RECURSIVE re_split_from(_, _, _)
\* re.split: scan left to right, cut at every leftmost non-overlapping match
re_split_from(s, i, cur) ==
    IF i > Len(s) THEN <<cur>>
    ELSE LET m == MatchAt(s, i)
         IN  IF m # 0 THEN <<cur>> \o re_split_from(s, m, <<>>)
                      ELSE re_split_from(s, i + 1, Append(cur, s[i]))

re_split(s) == re_split_from(s, 1, <<>>)

keys_comma_separated_values(v) ==
    LET result  == re_split(v)
        result2 == {result[k] : k \in {k \in DOMAIN result : result[k] # <<>>}}
    IN  IF result2 = {} THEN Raise("At least one key is required")
                        ELSE Return(result2)

----------------------------------------------------------------------------
(* datetime / timedelta                                                     *)

TzSuffixes == {"", "+05:00", "-05:00"}
IsoStrings ==
    [text : {"iso"}, wall : 0..MaxWall, suffix : TzSuffixes]
    \cup {[text |-> "garbage", wall |-> 0, suffix |-> ""]}

\* hours east of UTC of a tzinfo
utcoffset(tz) == CASE tz = "+05:00" -> 5 [] tz = "-05:00" -> 0 - 5 [] OTHER -> 0

\* datetime.fromisoformat: wall-clock fields plus the tzinfo of the suffix
fromisoformat(str) ==
    IF str.text # "iso" THEN Raise("Invalid isoformat string")
    ELSE Return([wall   |-> str.wall,
                 tzinfo |-> IF str.suffix = "" THEN "None" ELSE str.suffix])

\* datetime.replace(tzinfo=None): same wall-clock fields, no tzinfo
replace_tzinfo_None(dt) == [wall |-> dt.wall, tzinfo |-> "None"]

\* datetime.astimezone(utc).replace(tzinfo=None): shift to UTC, then drop tzinfo
to_utc_naive(dt) ==
    [wall |-> dt.wall - (IF dt.tzinfo = "None" THEN 0 ELSE utcoffset(dt.tzinfo)),
     tzinfo |-> "None"]

\* variant: the offset is applied before it is dropped
transform_date_ConvertToUtc(str) ==
    LET parsed == fromisoformat(str)
    IN  IF parsed.raised # "" THEN parsed ELSE Return(to_utc_naive(parsed.value))

\* transform_start_date / transform_end_date (identical bodies)
transform_date(str) ==
    LET parsed == fromisoformat(str)
    IN  IF parsed.raised # "" THEN parsed
        ELSE Return(replace_tzinfo_None(parsed.value))

transform_start_date(str) == transform_date(str)
transform_end_date(str) == transform_date(str)

\* largest |days| a timedelta holds
MaxTimedeltaDays == 999999999

\* timedelta(days=, hours=, milliseconds=, weeks=), normalised to
\* days / seconds in [0, 86400) / microseconds in [0, 10^6)
timedelta(days, hours, milliseconds, weeks) ==
    LET us   == (milliseconds % 1000) * 1000
        secs == (hours % 24) * 3600 + milliseconds \div 1000
        d    == days + weeks * 7 + hours \div 24 + secs \div 86400
    IN  IF d > MaxTimedeltaDays \/ d < 0 - MaxTimedeltaDays
        THEN Raise("OverflowError")
        ELSE Return([days |-> d, seconds |-> secs % 86400, microseconds |-> us])

----------------------------------------------------------------------------
(* TimeseriesAggregationQueryDto                                            *)

IntervalTypes == {"MILLISECOND", "HOUR", "DAY", "WEEK", "MONTH", "YEAR"}
\* members of AggregationType; the validators only test agg against None
AggregationTypes == {"AVG", "SUM"}
LimitDefault == 100
LimitMax == 500

\* characters of the alphabet that the keys__ pattern [a-zA-Z0-9_,-] admits
PatternChars == {"t", "h", ","}

\* keys__ : Field(pattern=r"^[a-zA-Z0-9_,-]+$")
keys_pattern_matches(s) == Len(s) > 0 /\ \A k \in DOMAIN s : s[k] \in PatternChars

\* the largest interval whose YEAR duration a timedelta holds, and the next one
OverflowProbes == {MaxTimedeltaDays \div 365, MaxTimedeltaDays \div 365 + 1}

\* Raw query parameters.  timezone and orderBy are optional enums that no
\* validator or property reads; they are left out of the request.
DtoKeyInputs ==
    {<<>>, <<"t">>, <<",">>, <<",", ",">>, <<"t", ",", "h">>, <<"t", " ">>}
Requests ==
    [keys         : DtoKeyInputs,
     startDate    : IsoStrings,
     endDate      : IsoStrings,
     intervalType : IntervalTypes \cup {"None"},
     interval     : (0 - 1)..MaxInterval \cup OverflowProbes,
     agg          : AggregationTypes \cup {"None"},
     limit        : {LimitDefault, LimitMax + 1}]

NoRequest ==
    [keys |-> <<>>, startDate |-> [text |-> "garbage", wall |-> 0, suffix |-> ""],
     endDate |-> [text |-> "garbage", wall |-> 0, suffix |-> ""],
     intervalType |-> "None", interval |-> 0, agg |-> "None", limit |-> LimitDefault]

NoDto ==
    [keys__ |-> <<>>, start_date |-> [wall |-> 0, tzinfo |-> "None"],
     end_date |-> [wall |-> 0, tzinfo |-> "None"],
     interval_type |-> "None", interval |-> 0, agg |-> "None", limit |-> LimitDefault]

\* Field-level validation: the Field constraints and the mode="before" validators.
FieldErrors(req) ==
    (IF keys_pattern_matches(req.keys) THEN {} ELSE {"keys: string_pattern_mismatch"})
    \cup (IF transform_start_date(req.startDate).raised = "" THEN {}
          ELSE {"startDate: value_error"})
    \cup (IF transform_end_date(req.endDate).raised = "" THEN {}
          ELSE {"endDate: value_error"})
    \cup (IF req.interval >= 0 THEN {} ELSE {"interval: greater_than_equal"})
    \cup (IF req.limit >= 0 THEN {} ELSE {"limit: greater_than_equal"})
    \cup (IF req.limit <= LimitMax THEN {} ELSE {"limit: less_than_equal"})

\* The field values pydantic assigns once every field validated.
Fields(req) ==
    [keys__        |-> req.keys,
     start_date    |-> transform_start_date(req.startDate).value,
     end_date      |-> transform_end_date(req.endDate).value,
     interval_type |-> req.intervalType,
     interval      |-> req.interval,
     agg           |-> req.agg,
     limit         |-> req.limit]

\* datetime >= datetime: naive against aware raises TypeError, aware values
\* compare as instants, naive values compare by their wall-clock fields.
datetime_ge(a, b) ==
    IF (a.tzinfo = "None") # (b.tzinfo = "None")
    THEN Raise("TypeError: can't compare offset-naive and offset-aware datetimes")
    ELSE IF a.tzinfo = "None" THEN Return(a.wall >= b.wall)
    ELSE Return(a.wall - utcoffset(a.tzinfo) >= b.wall - utcoffset(b.tzinfo))

\* variant: the aggregation fields are required only when agg is given
validate_dto_OnlyWhenAggRequested(self) ==
    LET ge == datetime_ge(self.start_date, self.end_date)
    IN  IF ge.raised # "" THEN ge
        ELSE IF ge.value THEN Raise("End date must be greater than start date")
        ELSE IF self.agg # "None" /\ (self.interval = 0 \/ self.interval_type = "None")
             THEN Raise("When using aggregation, 'interval', 'intervalType', and 'agg' must be provided")
        ELSE Return(self)

\* @model_validator(mode="after")
validate_dto(self) ==
    LET ge == datetime_ge(self.start_date, self.end_date)
    IN  IF ge.raised # "" THEN ge
        ELSE IF ge.value THEN Raise("End date must be greater than start date")
        ELSE IF self.interval = 0 \/ self.interval_type = "None" \/ self.agg = "None"
             THEN Raise("When using aggregation, 'interval', 'intervalType', and 'agg' must be provided")
        ELSE Return(self)

\* @computed_field keys
keys(self) == keys_comma_separated_values(self.keys__)

\* @computed_field interval_in_timedelta
interval_in_timedelta(self) ==
    IF self.interval_type = "None" \/ self.interval = 0
    THEN Raise("Interval and interval type must be provided")
    ELSE IF self.interval_type = "MILLISECOND" THEN timedelta(0, 0, self.interval, 0)
    ELSE IF self.interval_type = "HOUR" THEN timedelta(0, self.interval, 0, 0)
    ELSE IF self.interval_type = "DAY" THEN timedelta(self.interval, 0, 0, 0)
    ELSE IF self.interval_type = "WEEK" THEN timedelta(0, 0, 0, self.interval)
    ELSE IF self.interval_type = "MONTH" THEN timedelta(self.interval * 30, 0, 0, 0)
    ELSE IF self.interval_type = "YEAR" THEN timedelta(self.interval * 365, 0, 0, 0)
    ELSE Raise("Invalid interval type")

\* variant: agg is not consulted
is_aggregate_query_IgnoreAgg(self) ==
    Return(self.interval > 0 /\ self.interval_type # "None")

\* @computed_field is_aggregate_query
is_aggregate_query(self) ==
    Return(self.interval > 0 /\ self.interval_type # "None" /\ self.agg # "None")

----------------------------------------------------------------------------
(* Actions on the DTO                                                       *)

\* TimeseriesAggregationQueryDto(**params): field validation, then validate_dto
Construct ==
    /\ outcome = "idle"
    /\ \E req \in Requests :
          LET errs == FieldErrors(req)
              res  == IF errs = {} THEN validate_dto(Fields(req)) ELSE Raise("fields")
          IN  /\ request' = req
              /\ IF errs # {}
                 THEN outcome' = "rejected" /\ errors' = errs /\ dto' = NoDto
                 ELSE IF res.raised # ""
                 THEN outcome' = "rejected" /\ errors' = {res.raised} /\ dto' = NoDto
                 ELSE outcome' = "constructed" /\ errors' = {} /\ dto' = res.value
    /\ accessed' = NotCalled
    /\ UNCHANGED <<value>>
    /\ UNCHANGED seedVars

\* dto.keys
AccessKeys ==
    /\ outcome \in {"constructed", "unvalidated"}
    /\ accessed' = Called("keys", keys(dto))
    /\ UNCHANGED <<request, dto, outcome, errors, value>>
    /\ UNCHANGED seedVars

\* dto.interval_in_timedelta
AccessIntervalInTimedelta ==
    /\ outcome \in {"constructed", "unvalidated"}
    /\ accessed' = Called("interval_in_timedelta", interval_in_timedelta(dto))
    /\ UNCHANGED <<request, dto, outcome, errors, value>>
    /\ UNCHANGED seedVars

\* dto.is_aggregate_query
AccessIsAggregateQuery ==
    /\ outcome \in {"constructed", "unvalidated"}
    /\ accessed' = Called("is_aggregate_query", is_aggregate_query(dto))
    /\ UNCHANGED <<request, dto, outcome, errors, value>>
    /\ UNCHANGED seedVars

\* keys_comma_separated_values(value), the KeySetQuery dependency
CallKeysCommaSeparatedValues ==
    /\ outcome = "raw"
    /\ accessed' = Called("keys_comma_separated_values", keys_comma_separated_values(value))
    /\ UNCHANGED <<request, dto, outcome, errors, value>>
    /\ UNCHANGED seedVars

----------------------------------------------------------------------------
(* Seed migration 24d5a0f27b28: tables and session                          *)

revision == "24d5a0f27b28"
down_revision == "3d19e8d3338d"
\* app.module.auth.constants.TEAM_ROLE_OWNER; only equality with Role.name matters
TEAM_ROLE_OWNER == "Owner"

\* scopes of TeamRolePermission.READ, .MANAGE, .DELETE, in list order; the three
\* scope strings stand for three distinct values
permissions == <<"team_role:read", "team_role:manage", "team_role:delete">>
Scopes == {permissions[k] : k \in DOMAIN permissions}

Tables == [permission |-> permission, role_permission |-> role_permission]

NoSession ==
    [permission |-> {}, role_permission |-> {}, role_owner_ids |-> {},
     permission_ids |-> {}, ids |-> <<>>]

\* role tables over ids 1..MaxRoles: each id absent, an owner role or another role
RoleTables ==
    {{[id |-> i, name |-> f[i]] : i \in {i \in 1..MaxRoles : f[i] # "absent"}} :
        f \in [1..MaxRoles -> {"absent", TEAM_ROLE_OWNER, "Member"}]}

\* permission tables before the seed: n rows of scopes the seed does not own
\* (a database stamped down_revision holds no row of the three seeded scopes)
OtherPermissions(n) == {[id |-> i, scope |-> "device:read"] : i \in 1..n}

\* longest run of permission ids the model hands out
SeqLimit == MaxOtherPermissions + 3 * MaxRuns

\* select(Role.id).where(Role.name == TEAM_ROLE_OWNER)
role_owner_ids_stmt == {r.id : r \in {r \in role : r.name = TEAM_ROLE_OWNER}}

----------------------------------------------------------------------------
(* upgrade()                                                                *)

\* session = Session(bind=op.get_bind())
UpgradeBegin ==
    /\ pc = "idle"
    /\ alembic_version = down_revision
    /\ permission_seq <= SeqLimit
    /\ session' = [NoSession EXCEPT !.permission = permission,
                                    !.role_permission = role_permission]
    /\ before' = Tables
    /\ pre_seed' = Tables
    /\ last' = "running"
    /\ pc' = "up_add"
    /\ UNCHANGED <<alembic_version, role, permission, role_permission, permission_seq,
                   failed_at>>
    /\ UNCHANGED dtoVars

\* rows the flush inserts: one per entry of permissions, ids drawn from the sequence
FlushedPermissions ==
    {[id |-> permission_seq + k - 1, scope |-> permissions[k]] : k \in DOMAIN permissions}

\* variant: the flush is committed at once
UpgradeAddPermissions_Autocommit ==
    /\ pc = "up_add"
    /\ session' = [session EXCEPT
                      !.permission = @ \cup FlushedPermissions,
                      !.ids = [k \in DOMAIN permissions |-> permission_seq + k - 1]]
    /\ permission' = permission \cup FlushedPermissions
    /\ permission_seq' = permission_seq + Len(permissions)
    /\ pc' = "up_select_roles"
    /\ UNCHANGED <<alembic_version, role, role_permission, last, failed_at, before, pre_seed>>
    /\ UNCHANGED dtoVars

\* session.add_all(permissions); session.flush()
UpgradeAddPermissions ==
    /\ pc = "up_add"
    /\ session' = [session EXCEPT
                      !.permission = @ \cup FlushedPermissions,
                      !.ids = [k \in DOMAIN permissions |-> permission_seq + k - 1]]
    /\ permission_seq' = permission_seq + Len(permissions)
    /\ pc' = "up_select_roles"
    /\ UNCHANGED <<alembic_version, role, permission, role_permission, last, failed_at, before, pre_seed>>
    /\ UNCHANGED dtoVars

\* role_owner_ids = session.execute(role_owner_ids_stmt).scalars().all()
UpgradeSelectRoleOwnerIds ==
    /\ pc = "up_select_roles"
    /\ session' = [session EXCEPT !.role_owner_ids = role_owner_ids_stmt]
    /\ pc' = "up_insert"
    /\ UNCHANGED <<alembic_version, role, permission, role_permission, permission_seq,
                   last, failed_at, before, pre_seed>>
    /\ UNCHANGED dtoVars

\* variant: only permissions[0] is linked
UpgradeInsertRolePermissions_FirstPermissionOnly ==
    /\ pc = "up_insert"
    /\ LET values == {[role_id |-> r, permission_id |-> session.ids[1]] :
                          r \in session.role_owner_ids}
       IN  session' = [session EXCEPT !.role_permission = @ \cup values]
    /\ pc' = "up_commit"
    /\ UNCHANGED <<alembic_version, role, permission, role_permission, permission_seq,
                   last, failed_at, before, pre_seed>>
    /\ UNCHANGED dtoVars

\* values = [...]; if values: session.execute(insert(RolePermission).values(values))
UpgradeInsertRolePermissions ==
    /\ pc = "up_insert"
    /\ LET values == {[role_id |-> r, permission_id |-> session.ids[k]] :
                          k \in DOMAIN permissions, r \in session.role_owner_ids}
       IN  session' = IF values # {}
                      THEN [session EXCEPT !.role_permission = @ \cup values]
                      ELSE session
    /\ pc' = "up_commit"
    /\ UNCHANGED <<alembic_version, role, permission, role_permission, permission_seq,
                   last, failed_at, before, pre_seed>>
    /\ UNCHANGED dtoVars

\* session.commit(); the migration returns and the revision is stamped
UpgradeCommit ==
    /\ pc = "up_commit"
    /\ permission' = session.permission
    /\ role_permission' = session.role_permission
    /\ alembic_version' = revision
    /\ session' = NoSession
    /\ last' = "upgraded"
    /\ pc' = "idle"
    /\ UNCHANGED <<role, permission_seq, failed_at, before, pre_seed>>
    /\ UNCHANGED dtoVars

----------------------------------------------------------------------------
(* downgrade()                                                              *)

\* session = Session(bind=op.get_bind())
DowngradeBegin ==
    /\ pc = "idle"
    /\ alembic_version = revision
    /\ session' = [NoSession EXCEPT !.permission = permission,
                                    !.role_permission = role_permission]
    /\ before' = Tables
    /\ last' = "running"
    /\ pc' = "down_select_roles"
    /\ UNCHANGED <<alembic_version, role, permission, role_permission, permission_seq,
                   failed_at, pre_seed>>
    /\ UNCHANGED dtoVars

\* role_owner_ids = session.execute(role_owner_ids_stmt).scalars().all()
DowngradeSelectRoleOwnerIds ==
    /\ pc = "down_select_roles"
    /\ session' = [session EXCEPT !.role_owner_ids = role_owner_ids_stmt]
    /\ pc' = "down_select_permissions"
    /\ UNCHANGED <<alembic_version, role, permission, role_permission, permission_seq,
                   last, failed_at, before, pre_seed>>
    /\ UNCHANGED dtoVars

\* permission_ids = select(Permission.id).where(Permission.scope.in_(scopes))
DowngradeSelectPermissionIds ==
    /\ pc = "down_select_permissions"
    /\ session' = [session EXCEPT !.permission_ids =
                      {p.id : p \in {p \in session.permission : p.scope \in Scopes}}]
    /\ pc' = "down_delete_links"
    /\ UNCHANGED <<alembic_version, role, permission, role_permission, permission_seq,
                   last, failed_at, before, pre_seed>>
    /\ UNCHANGED dtoVars

\* variant: the delete is not restricted to permission_ids
DowngradeDeleteRolePermissions_AnyPermission ==
    /\ pc = "down_delete_links"
    /\ session' = [session EXCEPT !.role_permission =
                      {rp \in @ : ~(rp.role_id \in session.role_owner_ids)}]
    /\ pc' = "down_delete_permissions"
    /\ UNCHANGED <<alembic_version, role, permission, role_permission, permission_seq,
                   last, failed_at, before, pre_seed>>
    /\ UNCHANGED dtoVars

\* delete(RolePermission).where(role_id.in_(role_owner_ids),
\*                              permission_id.in_(permission_ids))
DowngradeDeleteRolePermissions ==
    /\ pc = "down_delete_links"
    /\ session' = [session EXCEPT !.role_permission =
                      {rp \in @ : ~(/\ rp.role_id \in session.role_owner_ids
                                    /\ rp.permission_id \in session.permission_ids)}]
    /\ pc' = "down_delete_permissions"
    /\ UNCHANGED <<alembic_version, role, permission, role_permission, permission_seq,
                   last, failed_at, before, pre_seed>>
    /\ UNCHANGED dtoVars

\* delete(Permission).where(Permission.scope.in_(scopes))
DowngradeDeletePermissions ==
    /\ pc = "down_delete_permissions"
    /\ session' = [session EXCEPT !.permission = {p \in @ : p.scope \notin Scopes}]
    /\ pc' = "down_commit"
    /\ UNCHANGED <<alembic_version, role, permission, role_permission, permission_seq,
                   last, failed_at, before, pre_seed>>
    /\ UNCHANGED dtoVars

\* session.commit(); the migration returns and the revision is stamped
DowngradeCommit ==
    /\ pc = "down_commit"
    /\ permission' = session.permission
    /\ role_permission' = session.role_permission
    /\ alembic_version' = down_revision
    /\ session' = NoSession
    /\ last' = "downgraded"
    /\ pc' = "idle"
    /\ UNCHANGED <<role, permission_seq, failed_at, before, pre_seed>>
    /\ UNCHANGED dtoVars

\* A statement raises before the commit: the exception leaves upgrade() or
\* downgrade(), the session is never committed and its work is rolled back.
\* Values already drawn from the id sequence are not given back.
MigrationFails ==
    /\ pc # "idle"
    /\ session' = NoSession
    /\ last' = "failed"
    /\ failed_at' = pc
    /\ pc' = "idle"
    /\ UNCHANGED <<alembic_version, role, permission, role_permission, permission_seq,
                   before, pre_seed>>
    /\ UNCHANGED dtoVars

----------------------------------------------------------------------------
(* Specifications                                                           *)

DtoIdle ==
    /\ request = NoRequest
    /\ dto = NoDto
    /\ outcome = "idle"
    /\ errors = {}
    /\ accessed = NotCalled
    /\ value = <<>>

SeedIdle ==
    /\ alembic_version = down_revision
    /\ role = {}
    /\ permission = {}
    /\ role_permission = {}
    /\ permission_seq = 1
    /\ session = NoSession
    /\ pc = "idle"
    /\ last = "none"
    /\ failed_at = ""
    /\ before = [permission |-> {}, role_permission |-> {}]
    /\ pre_seed = [permission |-> {}, role_permission |-> {}]

\* Requests handled by the query endpoint: construct the DTO, read its properties.
Init == DtoIdle /\ SeedIdle
Next ==
    \/ Construct
    \/ AccessKeys
    \/ AccessIntervalInTimedelta
    \/ AccessIsAggregateQuery
Spec == Init /\ [][Next]_vars

\* keys_comma_separated_values as a function of its argument
InitKeySet ==
    /\ value \in RawStrings
    /\ request = NoRequest
    /\ dto = NoDto
    /\ outcome = "raw"
    /\ errors = {}
    /\ accessed = NotCalled
    /\ SeedIdle
NextKeySet == CallKeysCommaSeparatedValues
SpecKeySet == InitKeySet /\ [][NextKeySet]_vars

\* Field values a TimeseriesAggregationQueryDto can carry when its properties
\* are read as functions of the fields (every field within its Field constraints).
FieldValues ==
    [keys__        : {<<"t">>},
     start_date    : {[wall |-> 0, tzinfo |-> "None"]},
     end_date      : {[wall |-> 1, tzinfo |-> "None"]},
     interval_type : IntervalTypes \cup {"None"},
     interval      : 0..MaxInterval \cup OverflowProbes,
     agg           : AggregationTypes \cup {"None"},
     limit         : {LimitDefault}]
InitProperties ==
    /\ dto \in FieldValues
    /\ request = NoRequest
    /\ outcome = "unvalidated"
    /\ errors = {}
    /\ accessed = NotCalled
    /\ value = <<>>
    /\ SeedIdle
NextProperties ==
    \/ AccessIntervalInTimedelta
    \/ AccessIsAggregateQuery
SpecProperties == InitProperties /\ [][NextProperties]_vars

\* The migration run by alembic against a database stamped down_revision.
InitSeed ==
    /\ DtoIdle
    /\ alembic_version = down_revision
    /\ role \in RoleTables
    /\ \E n \in 0..MaxOtherPermissions :
          /\ permission = OtherPermissions(n)
          /\ permission_seq = n + 1
    /\ role_permission \in
          SUBSET [role_id : {r.id : r \in role}, permission_id : {p.id : p \in permission}]
    /\ session = NoSession
    /\ pc = "idle"
    /\ last = "none"
    /\ failed_at = ""
    /\ before = Tables
    /\ pre_seed = Tables
NextSeed ==
    \/ UpgradeBegin
    \/ UpgradeAddPermissions
    \/ UpgradeSelectRoleOwnerIds
    \/ UpgradeInsertRolePermissions
    \/ UpgradeCommit
    \/ DowngradeBegin
    \/ DowngradeSelectRoleOwnerIds
    \/ DowngradeSelectPermissionIds
    \/ DowngradeDeleteRolePermissions
    \/ DowngradeDeletePermissions
    \/ DowngradeCommit
    \/ MigrationFails
SpecSeed == InitSeed /\ [][NextSeed]_vars

----------------------------------------------------------------------------
(* Claims                                                                   *)

AggregationMessage ==
    "When using aggregation, 'interval', 'intervalType', and 'agg' must be provided"
EndDateMessage == "End date must be greater than start date"
Decided == outcome \in {"constructed", "rejected"}

C2_AcceptedIffStartBeforeEnd ==
    (Decided /\ FieldErrors(request) = {}) =>
        (outcome = "constructed" <=> request.startDate.wall < request.endDate.wall)

\* C3 (as claimed): no DTO is successfully constructed whose key string parses
\* to an empty key set; reading keys of a constructed DTO never raises.
C3_ConstructedKeysNonEmpty ==
    outcome = "constructed" =>
        /\ keys(dto).raised = ""
        /\ keys(dto).value # {}

\* C4: is_aggregate_query is true exactly when interval > 0, intervalType is
\* present and agg is present, for every combination of the three conditions.
C4_IsAggregateQueryIffAllThree ==
    accessed.prop = "is_aggregate_query" =>
        /\ accessed.raised = ""
        /\ accessed.value = TRUE =>
              (dto.interval > 0 /\ dto.interval_type \in IntervalTypes
                                /\ dto.agg \in AggregationTypes)
        /\ accessed.value = FALSE =>
              (dto.interval = 0 \/ dto.interval_type = "None" \/ dto.agg = "None")

\* C4 witness: two of the three conditions hold (agg is absent), the result is False.
C4_Witness ==
    /\ accessed.prop = "is_aggregate_query"
    /\ dto.interval > 0
    /\ dto.interval_type = "DAY"
    /\ dto.agg = "None"
    /\ accessed.value = FALSE

\* the duration interval * unit as a normalised timedelta
C5_Duration(type, n) ==
    CASE type = "MILLISECOND" ->
            [days |-> n \div 86400000, seconds |-> (n % 86400000) \div 1000,
             microseconds |-> (n % 1000) * 1000]
      [] type = "HOUR" ->
            [days |-> n \div 24, seconds |-> (n % 24) * 3600, microseconds |-> 0]
      [] type = "DAY"   -> [days |-> n, seconds |-> 0, microseconds |-> 0]
      [] type = "WEEK"  -> [days |-> n * 7, seconds |-> 0, microseconds |-> 0]
      [] type = "MONTH" -> [days |-> n * 30, seconds |-> 0, microseconds |-> 0]
      [] type = "YEAR"  -> [days |-> n * 365, seconds |-> 0, microseconds |-> 0]

\* C5 (as claimed): interval_in_timedelta raises when intervalType is absent or
\* interval is 0, and otherwise returns interval milliseconds / hours / days /
\* 7*interval days / 30*interval days / 365*interval days.
C5_IntervalInTimedeltaIsDuration ==
    accessed.prop = "interval_in_timedelta" =>
        IF dto.interval_type = "None" \/ dto.interval = 0
        THEN accessed.raised # ""
        ELSE /\ accessed.raised = ""
             /\ accessed.value = C5_Duration(dto.interval_type, dto.interval)

\* C5 restricted to durations of at most MaxTimedeltaDays days, with the
\* OverflowError beyond them.
C5_DurationWithinTimedeltaRange ==
    accessed.prop = "interval_in_timedelta" =>
        IF dto.interval_type = "None" \/ dto.interval = 0
        THEN accessed.raised = "Interval and interval type must be provided"
        ELSE IF C5_Duration(dto.interval_type, dto.interval).days > MaxTimedeltaDays
        THEN accessed.raised = "OverflowError"
        ELSE /\ accessed.raised = ""
             /\ accessed.value = C5_Duration(dto.interval_type, dto.interval)

C6_AllWhitespace(s, i, j) == \A k \in i..j : s[k] \in Whitespace

\* a fragment starts at the start of the string, or at a non-blank character
\* that follows a comma and the blanks after it
C6_StartsFragment(s, a) ==
    \/ a = 1
    \/ /\ s[a] \notin Whitespace
       /\ \E c \in 1..(a - 1) : s[c] = "," /\ C6_AllWhitespace(s, c + 1, a - 1)

\* a fragment ends at the end of the string, or at a non-blank character
\* that precedes a comma and the blanks before it
C6_EndsFragment(s, b) ==
    \/ b = Len(s)
    \/ /\ s[b] \notin Whitespace
       /\ \E c \in (b + 1)..Len(s) : s[c] = "," /\ C6_AllWhitespace(s, b + 1, c - 1)

\* the non-empty comma-free pieces of s, without the blanks around the commas
C6_Fragments(s) ==
    {SubSeq(s, ab[1], ab[2]) :
        ab \in {ab \in (1..Len(s)) \X (1..Len(s)) :
                  /\ ab[1] <= ab[2]
                  /\ \A k \in ab[1]..ab[2] : s[k] # ","
                  /\ C6_StartsFragment(s, ab[1])
                  /\ C6_EndsFragment(s, ab[2])}}

C6_Example == <<"t", ",", " ", "h", ",", ",", "t">>

\* C6: keys_comma_separated_values splits on commas, tolerating whitespace
\* around the commas, drops empty fragments and returns the set of the
\* remaining fragments; it raises exactly when that set is empty.
C6_KeySetIsFragments ==
    accessed.prop = "keys_comma_separated_values" =>
        /\ (accessed.raised # "") <=> (C6_Fragments(value) = {})
        /\ accessed.raised = "" => accessed.value = C6_Fragments(value)
        /\ value = C6_Example => accessed.value = {<<"t">>, <<"h">>}

\* C6 witness: "t, h,,t" parsed to {"t", "h"}.
C6_Witness ==
    /\ accessed.prop = "keys_comma_separated_values"
    /\ value = C6_Example
    /\ accessed.raised = ""
    /\ accessed.value = {<<"t">>, <<"h">>}

\* C7: the normalised start_date and end_date are the wall-clock values of the
\* inputs with the offset dropped, not converted, and the startDate < endDate
\* check compares those wall-clock values.
C7_OffsetDiscardedNotConverted ==
    (Decided /\ FieldErrors(request) = {}) =>
        /\ outcome = "constructed" =>
              /\ dto.start_date = [wall |-> request.startDate.wall, tzinfo |-> "None"]
              /\ dto.end_date = [wall |-> request.endDate.wall, tzinfo |-> "None"]
        /\ (EndDateMessage \in errors)
              <=> (request.startDate.wall >= request.endDate.wall)

\* C7 witness: accepted although the instants, offsets applied, are in the
\* opposite order (01:00-05:00 is after 02:00+05:00).
C7_Witness ==
    /\ outcome = "constructed"
    /\ request.startDate = [text |-> "iso", wall |-> 1, suffix |-> "-05:00"]
    /\ request.endDate = [text |-> "iso", wall |-> 2, suffix |-> "+05:00"]
    /\ dto.start_date.wall = 1
    /\ dto.end_date.wall = 2

C9_AllOrNothing ==
    (pc # "idle" \/ last = "failed") =>
        /\ permission = before.permission
        /\ role_permission = before.role_permission

\* C9 witness: downgrade() raised after the links had been deleted in the session.
C9_Witness ==
    /\ last = "failed"
    /\ failed_at = "down_delete_permissions"
    /\ role_owner_ids_stmt # {}
    /\ Scopes \subseteq {p.scope : p \in permission}

\* C10: after a successful upgrade() the three permissions are inserted with
\* new ids and every owner role is linked to each of them; without an owner
\* role no link is added.
C10_OwnersLinkedToSeededPermissions ==
    last = "upgraded" =>
        LET seeded == permission \ pre_seed.permission
        IN  /\ pre_seed.permission \subseteq permission
            /\ Cardinality(seeded) = Len(permissions)
            /\ {p.scope : p \in seeded} = Scopes
            /\ {p.id : p \in seeded} \cap {p.id : p \in pre_seed.permission} = {}
            /\ role_permission = pre_seed.role_permission \cup
                  {[role_id |-> r, permission_id |-> p.id] :
                      r \in role_owner_ids_stmt, p \in seeded}
            /\ role_owner_ids_stmt = {} => role_permission = pre_seed.role_permission

\* C10 witness: a successful upgrade() with two owner roles.
C10_Witness ==
    /\ last = "upgraded"
    /\ Cardinality(role_owner_ids_stmt) >= 2
    /\ Cardinality(role_permission \ pre_seed.role_permission) = 2 * Len(permissions)

====
